---------------------------- MODULE Spec2Model ----------------------------
(***************************************************************************)
(* Model of scripts/rocket_simulator.py: the RASP .eng reader              *)
(* (EngineParser) and the forward-Euler ascent integrator                  *)
(* (RocketSimulator).                                                      *)
(*                                                                         *)
(* Numbers.  The program computes in binary floating point.  The model     *)
(* keeps the finite precision and the order of every operation, at a       *)
(* coarser resolution: a quantity x is the integer nearest to 1000 * x     *)
(* (seconds -> ms, metres -> mm, kg -> g, newtons -> mN), and every        *)
(* product and quotient is rounded to the nearest representable value, as  *)
(* a floating-point operation is.                                          *)
(***************************************************************************)
EXTENDS Integers, Sequences, FiniteSets

VARIABLES
    \* ---- RocketSimulator.simulate ----
    sim,            \* the RocketSimulator object (fields set by __init__)
    dt,             \* simulate's parameter
    t, h, v, m,     \* the locals of simulate (m is None until the loop binds it)
    times, heights, velocities, thrusts,
    v_at_2m, t_at_2m,
    apogee, time_to_apogee,
    pc,             \* position in simulate: "loop", "exit", "returned", "raised"
    exc,            \* the exception that left simulate, or NoExc
    result,         \* the returned dictionary, or None
    \* ---- EngineParser.parse and the entry point around it ----
    file,           \* the file at filepath: [exists, bytes]
    enc_i,          \* index of the next candidate in encodings
    lines,          \* the local lines, None while unbound
    i,              \* index of the next line of the loop under way
    data_start,
    engine,         \* the EngineParser object (self)
    ppc,            \* position: "decode", "spec", "data", "parsed", "raised", "built", "exit"
    pexc,           \* the exception that left parse, or NoExc
    exit_code       \* the status __main__ exits with, None while running

simvars == <<sim, dt, t, h, v, m, times, heights, velocities, thrusts,
             v_at_2m, t_at_2m, apogee, time_to_apogee, pc, exc, result>>

parsevars == <<file, enc_i, lines, i, data_start, engine, ppc, pexc, exit_code>>

vars == <<simvars, parsevars>>

\* Python's None / an unbound local, and a bound value.
None == <<>>
Some(x) == <<x>>
Val(o) == o[1]

NoExc == "none"

(***************************************************************************)
(* Finite-precision arithmetic.                                            *)
(***************************************************************************)
\* a / b rounded to the nearest integer (b > 0).
RoundDiv(a, b) == (a + (b \div 2)) \div b

\* x * y of two represented quantities.
Mul(x, y) == RoundDiv(x * y, 1000)

\* x / y of two represented quantities, y # 0.
Div(x, y) == IF y > 0 THEN RoundDiv(x * 1000, y) ELSE RoundDiv((0 - x) * 1000, 0 - y)

\* np.exp(x) for the small |x| the altitudes of a run give: 1 + x + x^2/2.
Exp(x) == 1000 + x + (Mul(x, x) \div 2)

\* self.g = 9.81
g == 9810
\* self.rho = 1.225
rho == 1225
\* np.pi
pi == 3142
\* the scale height 8500 of drag_force
ScaleHeight == 8500000
\* the ramp height 2.0 of simulate
RampHeight == 2000
\* the safety bounds of simulate: t > 300, h < -10
TMax == 300000
HMin == -10000

(***************************************************************************)
(* EngineParser.parse                                                      *)
(*                                                                         *)
(* A file is a sequence of bytes and a decoded text a sequence of          *)
(* characters, each written as a string: an ASCII byte or character as     *)
(* itself ("LF" the newline), the bytes C3, A9, 81 as "xC3", "xA9", "x81", *)
(* the characters beyond ASCII by their code points.                       *)
(***************************************************************************)
encodings == <<"utf-8", "latin-1", "windows-1252", "iso-8859-1", "cp1252">>

HighBytes == {"xC3", "xA9", "x81"}

\* the j-th smallest member of a finite set of indices
Nth(S, j) == CHOOSE k \in S : Cardinality({q \in S : q <= k}) = j

\* UTF-8: C3 opens a two-byte sequence, A9 and 81 only continue one.  C3 A9 is
\* U+00E9, C3 81 is U+00C1; a lone A9 or 81, or a C3 with no continuation after
\* it, does not decode.
DecodeUtf8(bs) ==
    LET cont   == {"xA9", "x81"}
        valid  == \A k \in 1..Len(bs) :
                     /\ bs[k] = "xC3" => (k < Len(bs) /\ bs[k + 1] \in cont)
                     /\ bs[k] \in cont => (k > 1 /\ bs[k - 1] = "xC3")
        starts == {k \in 1..Len(bs) : bs[k] \notin cont}
        CharAt(k) == IF bs[k] # "xC3" THEN bs[k]
                     ELSE IF bs[k + 1] = "xA9" THEN "U+00E9" ELSE "U+00C1"
    IN  IF ~valid THEN [ok |-> FALSE, chars |-> <<>>]
        ELSE [ok |-> TRUE,
              chars |-> [j \in 1..Cardinality(starts) |-> CharAt(Nth(starts, j))]]

\* Latin-1 (ISO 8859-1): every byte is the character of the same number.
Latin1Char(b) ==
    IF b = "xC3" THEN "U+00C3" ELSE IF b = "xA9" THEN "U+00A9"
    ELSE IF b = "x81" THEN "U+0081" ELSE b

DecodeLatin1(bs) == [ok |-> TRUE, chars |-> [k \in 1..Len(bs) |-> Latin1Char(bs[k])]]

\* Windows-1252: as Latin-1 for C3 and A9; 81 is unassigned and does not decode.
DecodeCp1252(bs) ==
    IF \E k \in 1..Len(bs) : bs[k] = "x81" THEN [ok |-> FALSE, chars |-> <<>>]
    ELSE [ok |-> TRUE, chars |-> [k \in 1..Len(bs) |-> Latin1Char(bs[k])]]

Decode(encoding, bs) ==
    IF encoding = "utf-8" THEN DecodeUtf8(bs)
    ELSE IF encoding \in {"latin-1", "iso-8859-1"} THEN DecodeLatin1(bs)
    ELSE DecodeCp1252(bs)

\* f.readlines(): the text cut after each newline
ReadLines(chars) ==
    LET ends == {k \in 1..Len(chars) : chars[k] = "LF" \/ k = Len(chars)}
        From(j) == IF j = 1 THEN 1 ELSE Nth(ends, j - 1) + 1
    IN  [j \in 1..Cardinality(ends) |-> SubSeq(chars, From(j), Nth(ends, j))]

\* str.isspace for the characters of the model
IsSpace(c) == c \in {" ", "LF"}

\* line.strip()
Strip(s) ==
    LET solid == {k \in 1..Len(s) : ~IsSpace(s[k])}
    IN  IF solid = {} THEN <<>>
        ELSE SubSeq(s, Nth(solid, 1), Nth(solid, Cardinality(solid)))

\* line.split(): the maximal runs of non-space characters
Split(s) ==
    LET starts == {k \in 1..Len(s) : ~IsSpace(s[k]) /\ (k = 1 \/ IsSpace(s[k - 1]))}
        ends   == {k \in 1..Len(s) : ~IsSpace(s[k]) /\ (k = Len(s) \/ IsSpace(s[k + 1]))}
    IN  [j \in 1..Cardinality(starts) |-> SubSeq(s, Nth(starts, j), Nth(ends, j))]

\* not line or line.startswith(';')
Skipped(line) == IF line = <<>> THEN TRUE ELSE Head(line) = ";"

Digits == <<"0", "1", "2", "3", "4", "5", "6", "7", "8", "9">>
IsDigit(c) == \E d \in 1..10 : Digits[d] = c
DigitVal(c) == (CHOOSE d \in 1..10 : Digits[d] = c) - 1

RECURSIVE IntVal(_)
IntVal(ds) == IF ds = <<>> THEN 0 ELSE 10 * IntVal(SubSeq(ds, 1, Len(ds) - 1)) + DigitVal(ds[Len(ds)])

RECURSIVE Pow10(_)
Pow10(n) == IF n = 0 THEN 1 ELSE 10 * Pow10(n - 1)

\* float(tok) for decimal literals [sign] digits [. digits]: [ok, val], ok = FALSE
\* the ValueError.  (No token of the model's files is an exponent form, inf or nan.)
float(tok) ==
    LET signed == tok # <<>> /\ Head(tok) \in {"+", "-"}
        body   == IF signed THEN Tail(tok) ELSE tok
        dots   == {k \in 1..Len(body) : body[k] = "."}
        dot    == IF dots = {} THEN Len(body) + 1 ELSE CHOOSE k \in dots : TRUE
        whole  == SubSeq(body, 1, dot - 1)
        frac   == SubSeq(body, dot + 1, Len(body))
        wellFormed ==
            /\ Cardinality(dots) <= 1
            /\ Len(whole) + Len(frac) >= 1
            /\ \A k \in 1..Len(whole) : IsDigit(whole[k])
            /\ \A k \in 1..Len(frac) : IsDigit(frac[k])
    IN  IF ~wellFormed THEN [ok |-> FALSE, val |-> 0]
        ELSE LET mag == IntVal(whole) * 1000 + RoundDiv(IntVal(frac) * 1000, Pow10(Len(frac)))
             IN  [ok |-> TRUE, val |-> IF signed /\ Head(tok) = "-" THEN 0 - mag ELSE mag]

\* EngineParser.__init__
NewEngine ==
    [name |-> <<>>, diameter |-> 0, length |-> 0, propellant_mass |-> 0,
     total_mass |-> 0, time |-> <<>>, thrust |-> <<>>]

(***************************************************************************)
(* EngineParser: the queries RocketSimulator.__init__ makes of a parsed    *)
(* engine e = [name, propellant_mass, time, thrust].                       *)
(***************************************************************************)
get_burn_time(e) == IF Len(e.time) > 0 THEN e.time[Len(e.time)] ELSE 0

\* scipy's interp1d(kind='linear', bounds_error=False, fill_value=0) at x:
\* searchsorted picks the first sample >= x, clipped to 2 .. n; the value is
\* slope * (x - x_lo) + y_lo on that segment, and 0 outside the samples.
SearchSorted(xs, x) ==
    LET hits == {k \in 1..Len(xs) : xs[k] >= x}
    IN  IF hits = {} THEN Len(xs) + 1
        ELSE CHOOSE k \in hits : \A q \in hits : k <= q

Interp1d(xs, ys, x) ==
    IF x < xs[1] \/ x > xs[Len(xs)] THEN 0
    ELSE LET k  == SearchSorted(xs, x)
             hi == IF k < 2 THEN 2 ELSE IF k > Len(xs) THEN Len(xs) ELSE k
             lo == hi - 1
             slope == Div(ys[hi] - ys[lo], xs[hi] - xs[lo])
         IN  Mul(slope, x - xs[lo]) + ys[lo]

\* get_thrust_interpolator()(x)
thrust_func(e, x) == IF Len(e.time) < 2 THEN 0 ELSE Interp1d(e.time, e.thrust, x)

(***************************************************************************)
(* RocketSimulator                                                         *)
(***************************************************************************)
\* __init__ with engine=e
NewFromEngine(total_mass, diameter, cd, e) ==
    [engine_mode |-> "curve", engine |-> e, thrust_value |-> 0,
     burn_time |-> get_burn_time(e), mp |-> e.propellant_mass,
     m0 |-> total_mass, mf |-> total_mass - e.propellant_mass,
     cd |-> cd, area |-> Mul(pi, Mul(Div(diameter, 2000), Div(diameter, 2000)))]

\* __init__ with thrust, burn_time, propellant_mass
NewManual(total_mass, diameter, cd, thrust_value, burn_time, propellant_mass) ==
    [engine_mode |-> "constant", engine |-> NewEngine, thrust_value |-> thrust_value,
     burn_time |-> burn_time, mp |-> propellant_mass,
     m0 |-> total_mass, mf |-> total_mass - propellant_mass,
     cd |-> cd, area |-> Mul(pi, Mul(Div(diameter, 2000), Div(diameter, 2000)))]

thrust(s, x) ==
    IF x > s.burn_time THEN 0
    ELSE IF s.engine_mode = "curve" THEN thrust_func(s.engine, x)
    ELSE s.thrust_value

drag_force(s, velocity, altitude) ==
    LET rho_alt == Mul(rho, Exp(Div(0 - altitude, ScaleHeight)))
    IN  Mul(Mul(Mul(Mul(500, rho_alt), Mul(velocity, velocity)), s.cd), s.area)

\* mass with the burnt-out branch returning the lift-off mass m0
mass_InitialAfterBurnout(s, x) ==
    IF x <= s.burn_time
    THEN IF s.burn_time = 0 THEN [ok |-> FALSE, val |-> 0]
         ELSE [ok |-> TRUE, val |-> s.m0 - Mul(Div(s.mp, s.burn_time), x)]
    ELSE [ok |-> TRUE, val |-> s.m0]

\* mass(t): [ok, val]; ok = FALSE is the ZeroDivisionError of mp / burn_time
\* (a burn_time of 0 is here the number passed to __init__ or get_burn_time's
\* "else 0", a Python number in both cases).
mass(s, x) ==
    IF x <= s.burn_time
    THEN IF s.burn_time = 0 THEN [ok |-> FALSE, val |-> 0]
         ELSE [ok |-> TRUE, val |-> s.m0 - Mul(Div(s.mp, s.burn_time), x)]
    ELSE [ok |-> TRUE, val |-> s.mf]

(***************************************************************************)
(* The inputs: the rockets __main__ can build and the dt simulate is given. *)
(***************************************************************************)
\* __main__'s rocket parameters: rocket_mass_empty, diameter, cd
rocket_mass_empty == 910
main_diameter == 60
main_cd == 900

\* manual thrusts 0, 5, 10, ... N
MaxThrustLevel == 4

ManualRockets ==
    { NewManual(rocket_mass_empty + mp, main_diameter, main_cd, 5000 * k, bt, mp) :
        k \in 0..MaxThrustLevel, bt \in {0, 500, 1500}, mp \in {0, 100} }

\* thrust equal to the weight (the rocket never leaves the ground), thrust
\* barely above it (still climbing at 300 s), and a rocket that is all propellant
Hover     == NewManual(rocket_mass_empty, main_diameter, main_cd, Mul(rocket_mass_empty, g), 400000, 0)
SlowClimb == NewManual(rocket_mass_empty, main_diameter, main_cd, Mul(rocket_mass_empty, g) + 10, 400000, 0)
AllFuel   == NewManual(1000, main_diameter, main_cd, 15000, 500, 1000)

\* engines as parse() leaves them for files with the specification line
\* "F35 29 95 0-4 0.090 0.118 TSP" and these (time, thrust) samples
ParsedF35 ==
    [NewEngine EXCEPT !.name = <<"F", "3", "5">>, !.diameter = 29000, !.length = 95000,
                      !.propellant_mass = 90, !.total_mass = 118]

Engines ==
    { [ParsedF35 EXCEPT !.time = <<0, 1000>>, !.thrust = <<0, 50000>>],
      [ParsedF35 EXCEPT !.time = <<0, 500, 1000>>, !.thrust = <<0, 30000, 0>>],
      [ParsedF35 EXCEPT !.time = <<100, 500, 1000>>, !.thrust = <<30000, 30000, 0>>],
      [ParsedF35 EXCEPT !.time = <<500>>, !.thrust = <<10000>>],
      ParsedF35 }

EngineRockets ==
    { NewFromEngine(rocket_mass_empty + e.propellant_mass, main_diameter, main_cd, e) : e \in Engines }

SimInputs ==
    { [sim |-> s, dt |-> d] : s \in ManualRockets \cup EngineRockets \cup {AllFuel}, d \in {100, 250} }
    \cup { [sim |-> s, dt |-> 1000] : s \in {Hover, SlowClimb} }

(***************************************************************************)
(* The motor files read.                                                   *)
(***************************************************************************)
\* the specification line of a well-formed file
L_Spec ==
    <<"F", "3", "5", " ", "2", "9", " ", "9", "5", " ", "0", "-", "4", " ", "0", ".", "0", "9", "0", " ", "0", ".", "1", "1", "8", " ", "T", "S", "P", "LF">>
\* a name with an e-acute, UTF-8 encoded (C3 A9)
L_SpecAccent ==
    <<"F", "xC3", "xA9", " ", "2", "9", " ", "9", "5", " ", "0", "-", "4", " ", "0", ".", "0", "9", "0", " ", "0", ".", "1", "1", "8", " ", "T", "S", "P", "LF">>
\* a non-numeric diameter
L_SpecBadDiameter ==
    <<"F", "3", "5", " ", "2", "x", " ", "9", "5", " ", "0", "-", "4", " ", "0", ".", "0", "9", "0", " ", "0", ".", "1", "1", "8", " ", "T", "S", "P", "LF">>
\* a non-numeric propellant mass
L_SpecBadMass ==
    <<"F", "3", "5", " ", "2", "9", " ", "9", "5", " ", "0", "-", "4", " ", "a", "b", "c", " ", "0", ".", "1", "1", "8", " ", "T", "S", "P", "LF">>
\* five fields only: not a specification line
L_SpecShort ==
    <<"F", "3", "5", " ", "2", "9", " ", "9", "5", " ", "0", "-", "4", " ", "0", ".", "0", "9", "0", "LF">>
\* a comment
L_Comment ==
    <<";", " ", "m", "o", "t", "o", "r", "LF">>
\* a comment with an e-acute, UTF-8 encoded (C3 A9)
L_CommentAccent ==
    <<";", " ", "xC3", "xA9", "LF">>
\* a comment with an A-acute, UTF-8 encoded (C3 81)
L_CommentAacute ==
    <<";", " ", "xC3", "x81", "LF">>
\* a comment with a copyright sign, Latin-1 encoded (A9)
L_CommentLatin1 ==
    <<";", " ", "xA9", "LF">>
\* a blank line
L_Blank ==
    <<"LF">>
\* sample (0.0, 0.0)
L_Data0 ==
    <<"0", ".", "0", " ", "0", ".", "0", "LF">>
\* sample (1.0, 50.0)
L_Data1 ==
    <<"1", ".", "0", " ", "5", "0", ".", "0", "LF">>
\* sample (0.5, 30.0)
L_DataMid ==
    <<"0", ".", "5", " ", "3", "0", ".", "0", "LF">>
\* a malformed data line
L_DataBad ==
    <<"b", "a", "d", " ", "l", "i", "n", "e", "LF">>
\* sample (1.0, 0.0), the file ending without a newline
L_DataLast ==
    <<"1", ".", "0", " ", "0", ".", "0">>

Headers ==
    { <<>>, L_Comment \o L_Blank, L_CommentAccent, L_CommentAacute, L_CommentLatin1 }

SpecLines ==
    { <<>>, L_Spec, L_SpecAccent, L_SpecBadDiameter, L_SpecBadMass, L_SpecShort }

DataBlocks ==
    { <<>>, L_Data0 \o L_Data1,
      L_Data0 \o L_Comment \o L_DataBad \o L_DataMid \o L_DataLast }

Files ==
    { [exists |-> TRUE, bytes |-> hd \o sp \o da] :
        hd \in Headers, sp \in SpecLines, da \in DataBlocks }
    \cup { [exists |-> FALSE, bytes |-> <<>>] }

(***************************************************************************)
(* parse(), one loop pass per step, and the try block of __main__          *)
(***************************************************************************)
ParseInit ==
    /\ file \in Files
    /\ enc_i = 1 /\ lines = None /\ i = 1 /\ data_start = 0
    /\ engine = NewEngine
    /\ ppc = "decode" /\ pexc = NoExc /\ exit_code = None

\* open() of a missing file: FileNotFoundError is not caught by parse
OpenRaises ==
    /\ ppc = "decode" /\ enc_i <= Len(encodings)
    /\ ~file.exists
    /\ ppc' = "raised" /\ pexc' = "FileNotFoundError"
    /\ UNCHANGED <<file, enc_i, lines, i, data_start, engine, exit_code>>
    /\ UNCHANGED simvars

\* one pass of "for encoding in encodings", the file decoding: lines is assigned
\* and the loop goes on to the next candidate
DecodeOk ==
    /\ ppc = "decode" /\ enc_i <= Len(encodings)
    /\ file.exists
    /\ Decode(encodings[enc_i], file.bytes).ok
    /\ lines' = Some(ReadLines(Decode(encodings[enc_i], file.bytes).chars))
    /\ enc_i' = enc_i + 1
    /\ UNCHANGED <<file, i, data_start, engine, ppc, pexc, exit_code>>
    /\ UNCHANGED simvars

\* one pass of "for encoding in encodings", UnicodeDecodeError: continue
DecodeFails ==
    /\ ppc = "decode" /\ enc_i <= Len(encodings)
    /\ file.exists
    /\ ~Decode(encodings[enc_i], file.bytes).ok
    /\ enc_i' = enc_i + 1
    /\ UNCHANGED <<file, lines, i, data_start, engine, ppc, pexc, exit_code>>
    /\ UNCHANGED simvars

\* the candidates are exhausted: on to the search for the specification line
\* (lines is bound: Latin-1 decodes every file)
DecodeDone ==
    /\ ppc = "decode" /\ enc_i > Len(encodings)
    /\ lines # None
    /\ ppc' = "spec" /\ i' = 1 /\ data_start' = 0
    /\ UNCHANGED <<file, enc_i, lines, engine, pexc, exit_code>>
    /\ UNCHANGED simvars

\* first loop: a blank line, a comment, or fewer than 6 fields
SpecSkip ==
    /\ ppc = "spec" /\ i <= Len(Val(lines))
    /\ LET line == Strip(Val(lines)[i])
       IN  IF Skipped(line) THEN TRUE ELSE Len(Split(line)) < 6
    /\ i' = i + 1
    /\ UNCHANGED <<file, enc_i, lines, data_start, engine, ppc, pexc, exit_code>>
    /\ UNCHANGED simvars

\* first loop: the specification line, its four numbers read
SpecLine ==
    /\ ppc = "spec" /\ i <= Len(Val(lines))
    /\ LET line  == Strip(Val(lines)[i])
           parts == Split(line)
       IN  /\ ~Skipped(line) /\ Len(parts) >= 6
           /\ \A k \in {2, 3, 5, 6} : float(parts[k]).ok
           /\ engine' = [engine EXCEPT !.name = parts[1],
                                       !.diameter = float(parts[2]).val,
                                       !.length = float(parts[3]).val,
                                       !.propellant_mass = float(parts[5]).val,
                                       !.total_mass = float(parts[6]).val]
    /\ data_start' = i
    /\ ppc' = "data" /\ i' = i + 1
    /\ UNCHANGED <<file, enc_i, lines, pexc, exit_code>>
    /\ UNCHANGED simvars

\* first loop: float() of a field of the specification line raises ValueError
SpecLineRaises ==
    /\ ppc = "spec" /\ i <= Len(Val(lines))
    /\ LET line  == Strip(Val(lines)[i])
           parts == Split(line)
       IN  /\ ~Skipped(line) /\ Len(parts) >= 6
           /\ \E k \in {2, 3, 5, 6} : ~float(parts[k]).ok
    /\ ppc' = "raised" /\ pexc' = "ValueError"
    /\ UNCHANGED <<file, enc_i, lines, i, data_start, engine, exit_code>>
    /\ UNCHANGED simvars

\* first loop ends without a break: data_start stays 0, nothing is raised
SpecNone ==
    /\ ppc = "spec" /\ i > Len(Val(lines))
    /\ ppc' = "data" /\ i' = 1
    /\ UNCHANGED <<file, enc_i, lines, data_start, engine, pexc, exit_code>>
    /\ UNCHANGED simvars

\* second loop: whether lines[i] holds a (time, thrust) sample
IsSample(line) ==
    /\ ~Skipped(line)
    /\ Len(Split(line)) >= 2
    /\ float(Split(line)[1]).ok
    /\ float(Split(line)[2]).ok

DataSample ==
    /\ ppc = "data" /\ i <= Len(Val(lines))
    /\ LET line  == Strip(Val(lines)[i])
           parts == Split(line)
       IN  /\ IsSample(line)
           /\ engine' = [engine EXCEPT !.time = Append(@, float(parts[1]).val),
                                       !.thrust = Append(@, float(parts[2]).val)]
    /\ i' = i + 1
    /\ UNCHANGED <<file, enc_i, lines, data_start, ppc, pexc, exit_code>>
    /\ UNCHANGED simvars

\* second loop: blank, comment, fewer than 2 fields or ValueError: skipped
DataSkip ==
    /\ ppc = "data" /\ i <= Len(Val(lines))
    /\ ~IsSample(Strip(Val(lines)[i]))
    /\ i' = i + 1
    /\ UNCHANGED <<file, enc_i, lines, data_start, engine, ppc, pexc, exit_code>>
    /\ UNCHANGED simvars

\* return self
ParseReturn ==
    /\ ppc = "data" /\ i > Len(Val(lines))
    /\ ppc' = "parsed"
    /\ UNCHANGED <<file, enc_i, lines, i, data_start, engine, pexc, exit_code>>
    /\ UNCHANGED simvars

\* __main__: total_mass = rocket_mass_empty + engine.propellant_mass and the
\* RocketSimulator built from the engine
MainBuild ==
    /\ ppc = "parsed"
    /\ sim' = NewFromEngine(rocket_mass_empty + engine.propellant_mass,
                            main_diameter, main_cd, engine)
    /\ ppc' = "built"
    /\ UNCHANGED <<dt, t, h, v, m, times, heights, velocities, thrusts,
                   v_at_2m, t_at_2m, apogee, time_to_apogee, pc, exc, result>>
    /\ UNCHANGED <<file, enc_i, lines, i, data_start, engine, pexc, exit_code>>

\* __main__: except FileNotFoundError / except Exception: a message and exit(1)
MainExit ==
    /\ ppc = "raised"
    /\ exit_code' = Some(1)
    /\ ppc' = "exit"
    /\ UNCHANGED <<file, enc_i, lines, i, data_start, engine, pexc>>
    /\ UNCHANGED simvars

ParseNext ==
    \/ OpenRaises \/ DecodeOk \/ DecodeFails \/ DecodeDone
    \/ SpecSkip \/ SpecLine \/ SpecLineRaises \/ SpecNone
    \/ DataSample \/ DataSkip \/ ParseReturn
    \/ MainBuild \/ MainExit

\* the variables of the part that is not running
ParseIdle ==
    /\ file = [exists |-> FALSE, bytes |-> <<>>]
    /\ enc_i = 1 /\ lines = None /\ i = 1 /\ data_start = 0
    /\ engine = NewEngine
    /\ ppc = "idle" /\ pexc = NoExc /\ exit_code = None

(***************************************************************************)
(* simulate(dt)                                                            *)
(***************************************************************************)
SimInit ==
    /\ \E in \in SimInputs : sim = in.sim /\ dt = in.dt
    /\ t = 0 /\ h = 0 /\ v = 0 /\ m = None
    /\ times = <<0>> /\ heights = <<0>> /\ velocities = <<0>>
    /\ thrusts = <<thrust(sim, 0)>>
    /\ v_at_2m = None /\ t_at_2m = None
    /\ apogee = None /\ time_to_apogee = None
    /\ pc = "loop" /\ exc = NoExc /\ result = None

\* the variables of the part that is not running
SimIdle ==
    /\ sim = NewManual(0, 0, 0, 0, 0, 0) /\ dt = 0
    /\ t = 0 /\ h = 0 /\ v = 0 /\ m = None
    /\ times = <<>> /\ heights = <<>> /\ velocities = <<>> /\ thrusts = <<>>
    /\ v_at_2m = None /\ t_at_2m = None
    /\ apogee = None /\ time_to_apogee = None
    /\ pc = "idle" /\ exc = NoExc /\ result = None

\* the pieces of one pass of the while loop
\* v += a * dt
NextV(v0, a, d) == v0 + Mul(a, d)

\* h += v * dt, with the velocity already updated
NextH(h0, v1, d) == h0 + Mul(v1, d)

\* the append made only while the motor pushes
RecordThrust_OnlyWhileBurning(ths, thrust_force) ==
    IF thrust_force > 0 THEN Append(ths, thrust_force) ELSE ths

\* thrusts.append(thrust_force)
RecordThrust(ths, thrust_force) == Append(ths, thrust_force)

\* the capture without its "is None" test
ShouldCapture_EveryStep(captured, h1) == h1 >= RampHeight

\* if v_at_2m is None and h >= 2.0
ShouldCapture(captured, h1) == IF captured = None THEN h1 >= RampHeight ELSE FALSE

\* the apogee test without its "h > 0"
AtApogee_NoGroundTest(v1, h1) == v1 <= 0

\* if v <= 0 and h > 0
AtApogee(v1, h1) == IF v1 <= 0 THEN h1 > 0 ELSE FALSE

\* if t > 300 or h < -10
OutOfBounds(t1, h1) == IF t1 > TMax THEN TRUE ELSE h1 < HMin

\* m = self.mass(t) raises: mp / burn_time with burn_time = 0
MassRaises ==
    /\ pc = "loop"
    /\ ~mass(sim, t).ok
    /\ pc' = "raised" /\ exc' = "ZeroDivisionError"
    /\ UNCHANGED <<sim, dt, t, h, v, m, times, heights, velocities, thrusts,
                   v_at_2m, t_at_2m, apogee, time_to_apogee, result>>
    /\ UNCHANGED parsevars

\* a = (thrust_force - weight - drag) / m raises: m = 0
AccelRaises ==
    /\ pc = "loop"
    /\ mass(sim, t).ok /\ mass(sim, t).val = 0
    /\ m' = Some(0)
    /\ pc' = "raised" /\ exc' = "ZeroDivisionError"
    /\ UNCHANGED <<sim, dt, t, h, v, times, heights, velocities, thrusts,
                   v_at_2m, t_at_2m, apogee, time_to_apogee, result>>
    /\ UNCHANGED parsevars

\* one pass of the while loop
Step ==
    /\ pc = "loop"
    /\ mass(sim, t).ok /\ mass(sim, t).val # 0
    /\ LET m1           == mass(sim, t).val
           thrust_force == thrust(sim, t)
           weight       == Mul(m1, g)
           drag         == IF v > 0 THEN drag_force(sim, v, h) ELSE 0
           a            == Div(thrust_force - weight - drag, m1)
           v1           == NextV(v, a, dt)
           h1           == NextH(h, v1, dt)
           t1           == t + dt
       IN  /\ m' = Some(m1)
           /\ v' = v1 /\ h' = h1 /\ t' = t1
           /\ times' = Append(times, t1)
           /\ heights' = Append(heights, h1)
           /\ velocities' = Append(velocities, v1)
           /\ thrusts' = RecordThrust(thrusts, thrust_force)
           /\ v_at_2m' = IF ShouldCapture(v_at_2m, h1) THEN Some(v1) ELSE v_at_2m
           /\ t_at_2m' = IF ShouldCapture(v_at_2m, h1) THEN Some(t1) ELSE t_at_2m
           /\ apogee' = IF AtApogee(v1, h1) THEN Some(h1) ELSE apogee
           /\ time_to_apogee' = IF AtApogee(v1, h1) THEN Some(t1) ELSE time_to_apogee
           /\ pc' = IF AtApogee(v1, h1) THEN "exit"
                    ELSE IF OutOfBounds(t1, h1) THEN "exit"
                    ELSE "loop"
    /\ UNCHANGED <<sim, dt, exc, result>>
    /\ UNCHANGED parsevars

\* Python's truth test of "x if x else 0" on a captured value
OrZero(o) == IF o # None /\ Val(o) # 0 THEN Val(o) ELSE 0

\* the return statement, apogee and time_to_apogee bound
Return ==
    /\ pc = "exit"
    /\ apogee # None /\ time_to_apogee # None
    /\ result' = Some([apogeo |-> Val(apogee), tempo_apogeo |-> Val(time_to_apogee),
                        velocita_2m |-> OrZero(v_at_2m), tempo_2m |-> OrZero(t_at_2m),
                        times |-> times, heights |-> heights,
                        velocities |-> velocities, thrusts |-> thrusts])
    /\ pc' = "returned"
    /\ UNCHANGED <<sim, dt, t, h, v, m, times, heights, velocities, thrusts,
                   v_at_2m, t_at_2m, apogee, time_to_apogee, exc>>
    /\ UNCHANGED parsevars

\* the return statement reads apogee, which the safety exit never bound
ReturnRaises ==
    /\ pc = "exit"
    /\ apogee = None
    /\ pc' = "raised" /\ exc' = "UnboundLocalError"
    /\ UNCHANGED <<sim, dt, t, h, v, m, times, heights, velocities, thrusts,
                   v_at_2m, t_at_2m, apogee, time_to_apogee, result>>
    /\ UNCHANGED parsevars

SimNext == MassRaises \/ AccelRaises \/ Step \/ Return \/ ReturnRaises

\* a run of simulate
Init == SimInit /\ ParseIdle
Next == SimNext
Spec == Init /\ [][Next]_vars

\* a run of the entry point's try block: parse and the construction
InitParse == ParseInit /\ SimIdle
SpecParse == InitParse /\ [][ParseNext]_vars

\* the terminal state of the run, in the words of the design
SimState ==
    IF pc = "loop" THEN "RUNNING"
    ELSE IF exc = "ZeroDivisionError" THEN "RAISED"
    ELSE IF apogee # None THEN "APOGEE_REACHED"
    ELSE "ABORTED"

(***************************************************************************)
(* Properties                                                              *)
(***************************************************************************)
MaxOf(seq) == CHOOSE x \in {seq[k] : k \in 1..Len(seq)} : \A k \in 1..Len(seq) : seq[k] <= x
MinIndex(S) == CHOOSE k \in S : \A q \in S : k <= q
Abs(x) == IF x < 0 THEN 0 - x ELSE x

\* the loop was left through "if t > 300 or h < -10"
LeftBySafetyBound ==
    /\ pc \in {"exit", "returned", "raised"}
    /\ exc # "ZeroDivisionError"
    /\ apogee = None

\* C1: whenever simulate leaves its loop through the safety bound it returns a
\* result and raises nothing.
C1_SafetyExitReturnsResult ==
    LeftBySafetyBound =>
        /\ exc = NoExc
        /\ pc # "exit" => (pc = "returned" /\ result # None)

\* a motor whose thrust is 0 at all times
ZeroThrustMotor(s) ==
    IF s.engine_mode = "constant" THEN s.thrust_value = 0
    ELSE IF Len(s.engine.time) < 2 THEN TRUE
    ELSE \A k \in 1..Len(s.engine.thrust) : s.engine.thrust[k] = 0

\* C2: with dt > 0 and positive mass the loop ends in APOGEE_REACHED or ABORTED,
\* no later than the first step with t > 300; with a motor of zero thrust it
\* never takes the apogee exit.
C2_LoopReachesTerminalState ==
    (dt > 0 /\ sim.m0 > 0 /\ sim.mf > 0) =>
        /\ SimState \in {"RUNNING", "APOGEE_REACHED", "ABORTED"}
        /\ pc = "loop" => t <= TMax
        /\ ZeroThrustMotor(sim) => apogee = None

\* what C2 claims does hold of every rocket with burn_time > 0
LoopTerminatesGivenBurnTime == sim.burn_time > 0 => C2_LoopReachesTerminalState

\* C3: with burn_time = 0, mass(t) returns a mass for every t >= 0, t = 0
\* included, so the first step of simulate does not fail.
C3_ZeroBurnTimeGuarded ==
    sim.burn_time = 0 => ~(pc = "raised" /\ exc = "ZeroDivisionError")

\* the decoding of the first candidate, in list order, that decodes the file
FirstDecoding(bs) ==
    LET good == {k \in 1..Len(encodings) : Decode(encodings[k], bs).ok}
    IN  Decode(encodings[MinIndex(good)], bs)

\* C4: the lines parse goes on to read are those of the first candidate
\* encoding that decodes the file; later candidates never replace them.
C4_FirstDecodingIsKept ==
    ppc \in {"spec", "data", "parsed", "built"} =>
        lines = Some(ReadLines(FirstDecoding(file.bytes).chars))

\* a non-comment, non-blank line with at least 6 fields whose diameter, length
\* and masses are numbers
HasSpecLine(ls) ==
    \E k \in 1..Len(ls) :
        /\ ~Skipped(Strip(ls[k]))
        /\ Len(Split(Strip(ls[k]))) >= 6
        /\ \A f \in {2, 3, 5, 6} : float(Split(Strip(ls[k]))[f]).ok

\* C5: a readable file with no specification line, or with a non-numeric field
\* in it, makes parse signal an error: parse returns an engine only for a file
\* that has a well-formed specification line.
C5_MissingSpecLineIsAnError ==
    ppc \in {"parsed", "built"} => HasSpecLine(Val(lines))

\* the rounding of mp / burn_time and of its product with t = burn_time
RoundErr(s) == (s.burn_time \div 2000) + 1

\* the time of the step whose mass m holds
MassTime == t - dt

C7_NoNegativeAltitudeBeforeApogee ==
    apogee # None => \A k \in 1..Len(heights) : heights[k] >= 0

\* the index of the highest recorded altitude (the first, if it is recorded twice)
ArgMax(seq) == MinIndex({k \in 1..Len(seq) : seq[k] = MaxOf(seq)})

\* C8 as claimed: 'apogeo' is the maximum of the recorded heights and
\* 'tempo_apogeo' the recorded time of that maximum.
C8_ApogeeIsMaxHeight ==
    pc = "returned" =>
        /\ Val(result).apogeo = MaxOf(Val(result).heights)
        /\ Val(result).tempo_apogeo = Val(result).times[ArgMax(Val(result).heights)]

\* C8 as amended: 'apogeo' and 'tempo_apogeo' are the last recorded altitude and
\* time, the altitude positive and the velocity there <= 0; 'apogeo' is the
\* altitude recorded just before plus the last step's v * dt, so it is at or
\* below that altitude and never above the maximum of the recorded heights.
C8_ApogeeIsLastSample ==
    pc = "returned" =>
        LET r == Val(result)
            n == Len(r.heights)
        IN  /\ n >= 2
            /\ r.apogeo = r.heights[n] /\ r.tempo_apogeo = r.times[n]
            /\ r.apogeo > 0
            /\ r.apogeo <= r.heights[n - 1] /\ r.apogeo <= MaxOf(r.heights)
            /\ r.velocities[n] <= 0
            /\ r.apogeo = r.heights[n - 1] + Mul(r.velocities[n], dt)

\* a result whose 'apogeo' is below the highest recorded altitude
C8_Witness ==
    /\ pc = "returned"
    /\ Val(result).apogeo < MaxOf(Val(result).heights)

\* the steps so far whose altitude reached the ramp height
RampSteps == {k \in 2..Len(heights) : heights[k] >= RampHeight}

\* C9: (t_at_2m, v_at_2m) is the time and velocity of the first step with
\* h >= 2.0, whatever steps follow, unset while there is none; the result
\* reports them, or 0 for both when no step reached 2.0.
C9_RampDepartureCapturedOnce ==
    /\ RampSteps = {} => (v_at_2m = None /\ t_at_2m = None)
    /\ RampSteps # {} =>
           /\ v_at_2m = Some(velocities[MinIndex(RampSteps)])
           /\ t_at_2m = Some(times[MinIndex(RampSteps)])
    /\ pc = "returned" =>
           /\ Val(result).velocita_2m =
                  IF RampSteps = {} THEN 0 ELSE velocities[MinIndex(RampSteps)]
           /\ Val(result).tempo_2m =
                  IF RampSteps = {} THEN 0 ELSE times[MinIndex(RampSteps)]

\* a returned run in which steps after the capture were still at or above 2.0
C9_Witness ==
    /\ pc = "returned"
    /\ Cardinality(RampSteps) >= 2
    /\ Val(result).velocita_2m > 0
    /\ Val(result).velocita_2m # velocities[Len(velocities)]

\* C10 as claimed: the four series have equal length and thrusts[k] is the
\* motor thrust at times[k].
C10_ThrustAlignedWithTime ==
    /\ Len(times) = Len(heights) /\ Len(times) = Len(velocities)
    /\ Len(times) = Len(thrusts)
    /\ \A k \in 1..Len(thrusts) : thrusts[k] = thrust(sim, times[k])

\* C10 as amended: the four series have equal length; thrusts[1] is the thrust
\* at times[1] = 0 and every later thrusts[k] is the thrust at times[k-1], the
\* thrust applied during the step that ends at times[k].
C10_ThrustOfThePrecedingTime ==
    pc # "idle" =>
        /\ Len(times) = Len(heights) /\ Len(times) = Len(velocities)
        /\ Len(times) = Len(thrusts)
        /\ thrusts[1] = thrust(sim, times[1])
        /\ \A k \in 2..Len(thrusts) : thrusts[k] = thrust(sim, times[k - 1])

\* a recorded thrust that is not the motor thrust at its recorded time
C10_Witness ==
    /\ Len(thrusts) >= 2
    /\ thrusts[Len(thrusts)] # thrust(sim, times[Len(times)])

=============================================================================
